---------------------------- MODULE Spec2Model ----------------------------
(***************************************************************************)
(* A model of src/main.py: GeminiVideoAnalyzer.  The pipeline of           *)
(* analyze_person_in_video with its progress-simulation threads and the    *)
(* remote file service is the specification Spec (LiveSpec adds the        *)
(* fairness of the polling loop).  The pure helpers (response parsing,     *)
(* timestamp conversion, frame clamping, comparison-sheet layout) are      *)
(* operators; ParseSpec, FrameSpec and SheetSpec draw their inputs from    *)
(* bounded sets and apply them.                                            *)
(***************************************************************************)
EXTENDS Integers, Sequences, FiniteSets, TLC

VARIABLES
    pc,                \* position of the main thread in analyze_person_in_video
    remote,            \* the remote service's state of each file
    observed,          \* state.name of the caller's file object (reference_file, video_file)
    fetched,           \* state.name of uploaded_file inside _wait_for_file_processing
    uploaded,          \* files for which genai.upload_file has returned
    get_calls,         \* genai.get_file calls issued per file (saturating)
    delete_attempted,  \* files for which genai.delete_file has been called
    result,            \* what analyze_person_in_video returned
    trace,             \* the pipeline steps started so far, in order
    failures,          \* the steps at which an exception was raised
    thr,               \* the progress-simulation threads
    bar,               \* the tqdm progress bars
    upload_progress,   \* self.upload_progress
    response_text,     \* response.text
    analysis_data,     \* result of _extract_analysis_data_from_response
    shown,             \* what the score section printed
    timestamps,        \* analysis_data['timestamps'] / the list given to _extract_video_frames
    screenshot_files,  \* extracted_files / screenshot_files
    comparison_file,   \* return value of _create_comparison_image
    report,            \* what main() printed
    step,              \* position of a helper under test (ParseSpec, FrameSpec, SheetSpec)
    video,             \* the video as cv2.VideoCapture reports it
    frame_info,        \* result of _convert_timestamp_to_frame_info
    seeks,             \* the frame indices passed to cap.set(CAP_PROP_POS_FRAMES, .)
    reads,             \* ret of each cap.read() of the call, in order
    canvas,            \* the comparison sheet: its size and column/row counts
    pasted,            \* the images pasted on the sheet, with their positions
    drawn_label        \* the label drawn last on the sheet: timestamp and frame number

pipeVars == <<pc, remote, observed, fetched, uploaded, get_calls, delete_attempted, result,
              trace, thr, bar, upload_progress, report>>
parseVars == <<response_text, analysis_data, shown>>
frameVars == <<timestamps, screenshot_files, video, frame_info, seeks, reads>>
sheetVars == <<canvas, pasted, comparison_file, drawn_label>>
vars == <<pipeVars, failures, parseVars, frameVars, sheetVars, step>>


(***************************************************************************)
(* Text.  A text is a sequence of tokens: single characters, and each      *)
(* label as one token.  The Chinese labels of the source are written in    *)
(* ASCII:                                                                  *)
(*   "ZH_EVIDENCE_TIMESTAMPS:"  stands for  zheng-ju-shi-jian-chuo ':'     *)
(*   "ZH_LIVENESS_SCORE:"       stands for  huo-ti-jian-ce-ping-fen ':'    *)
(*   "ZH_BIOMETRIC_SCORE:"      stands for  sheng-wu-te-zheng-ping-fen ':' *)
(*   "ZH_SPOOFING_RISK_SCORE:"  stands for  wei-zao-feng-xian-ping-fen ':' *)
(***************************************************************************)
None == -1

Digits == {"0", "1", "2", "3", "4", "5", "6", "7", "8", "9"}

DigitSeq == <<"0", "1", "2", "3", "4", "5", "6", "7", "8", "9">>

DigitVal(c) == (CHOOSE i \in 1..10 : DigitSeq[i] = c) - 1

\* int(s) of a run of decimal digits
RECURSIVE ToInt(_)
ToInt(s) ==
    IF s = <<>> THEN 0
    ELSE 10 * ToInt(SubSeq(s, 1, Len(s) - 1)) + DigitVal(s[Len(s)])

IsDigitAt(s, k) == k >= 1 /\ k <= Len(s) /\ s[k] \in Digits

IsCharAt(s, k, c) == k >= 1 /\ k <= Len(s) /\ s[k] = c

\* \s matches blanks and line breaks
IsSpace(c) == c \in {" ", "\n"}

\* re.IGNORECASE: the labels of the text compared without case
Fold(c) ==
    CASE c = "evidence_timestamps:" -> "EVIDENCE_TIMESTAMPS:"
      [] c = "liveness_score:" -> "LIVENESS_SCORE:"
      [] c = "biometric_score:" -> "BIOMETRIC_SCORE:"
      [] OTHER -> c

\* \s* from q: the first index at or after q that holds no space
RECURSIVE SkipSpace(_, _)
SkipSpace(s, q) ==
    IF q <= Len(s) /\ IsSpace(s[q]) THEN SkipSpace(s, q + 1) ELSE q

\* \d+ from q: the last index of the run of digits that starts at q (q - 1: none)
RECURSIVE DigitRunEnd(_, _)
DigitRunEnd(s, q) ==
    IF IsDigitAt(s, q) THEN DigitRunEnd(s, q + 1) ELSE q - 1

Min(S) == CHOOSE x \in S : \A y \in S : x <= y

\* <label>\s*(\d+)/10 matched at p
ScoreMatchAt(s, p, label) ==
    LET q == SkipSpace(s, p + 1)
        r == DigitRunEnd(s, q)
    IN  /\ Fold(s[p]) = label
        /\ r >= q
        /\ IsCharAt(s, r + 1, "/")
        /\ IsCharAt(s, r + 2, "1")
        /\ IsCharAt(s, r + 3, "0")

\* re.search(<label>\s*(\d+)/10, s, re.IGNORECASE): the leftmost match, 0 for none
ScoreSearch(s, label) ==
    LET ps == {p \in 1..Len(s) : ScoreMatchAt(s, p, label)}
    IN  IF ps = {} THEN 0 ELSE Min(ps)

\* int(match.group(1))
ScoreGroup(s, p) ==
    LET q == SkipSpace(s, p + 1)
    IN  ToInt(SubSeq(s, q, DigitRunEnd(s, q)))

\* the first "]" after q, 0 for none
FirstClose(s, q) ==
    LET cs == {c \in (q + 1)..Len(s) : s[c] = "]"}
    IN  IF cs = {} THEN 0 ELSE Min(cs)

\* <label>\s*\[(.*?)\] matched at p ("." matches no line break)
ListMatchAt(s, p, label) ==
    LET q == SkipSpace(s, p + 1)
        c == FirstClose(s, q)
    IN  /\ Fold(s[p]) = label
        /\ IsCharAt(s, q, "[")
        /\ c > 0
        /\ \A k \in (q + 1)..(c - 1) : s[k] # "\n"

ListSearch(s, label) ==
    LET ps == {p \in 1..Len(s) : ListMatchAt(s, p, label)}
    IN  IF ps = {} THEN 0 ELSE Min(ps)

\* match.group(1) of the list pattern
ListGroup(s, p) ==
    LET q == SkipSpace(s, p + 1)
    IN  SubSeq(s, q + 1, FirstClose(s, q) - 1)

\* time_pattern \d{1,2}:\d{2}(?::\d{2})?(?:\.\d{1,2})? matched at p: the length
\* of the match, 0 for none
TimeMatchLen(s, p) ==
    LET head == IF IsDigitAt(s, p) /\ IsDigitAt(s, p + 1) /\ IsCharAt(s, p + 2, ":")
                THEN 3
                ELSE IF IsDigitAt(s, p) /\ IsCharAt(s, p + 1, ":") THEN 2 ELSE 0
        a == p + head
        e1 == a + 2
        e2 == IF IsCharAt(s, e1, ":") /\ IsDigitAt(s, e1 + 1) /\ IsDigitAt(s, e1 + 2)
              THEN e1 + 3 ELSE e1
        e3 == IF IsCharAt(s, e2, ".") /\ IsDigitAt(s, e2 + 1)
              THEN (IF IsDigitAt(s, e2 + 2) THEN e2 + 3 ELSE e2 + 2)
              ELSE e2
    IN  IF head > 0 /\ IsDigitAt(s, a) /\ IsDigitAt(s, a + 1) THEN e3 - p ELSE 0

\* re.findall(time_pattern, s) scanning from p
RECURSIVE FindAllTimes(_, _)
FindAllTimes(s, p) ==
    IF p > Len(s) THEN <<>>
    ELSE LET n == TimeMatchLen(s, p)
         IN  IF n > 0 THEN <<SubSeq(s, p, p + n - 1)>> \o FindAllTimes(s, p + n)
             ELSE FindAllTimes(s, p + 1)

timestamp_patterns == <<"ZH_EVIDENCE_TIMESTAMPS:", "EVIDENCE_TIMESTAMPS:">>

liveness_patterns_swapped == <<"LIVENESS_SCORE:", "ZH_LIVENESS_SCORE:">>

liveness_patterns == <<"ZH_LIVENESS_SCORE:", "LIVENESS_SCORE:">>

biometric_patterns == <<"ZH_BIOMETRIC_SCORE:", "BIOMETRIC_SCORE:">>

spoofing_score_pattern == "ZH_SPOOFING_RISK_SCORE:"

\* for pattern in patterns: ... if match: ...; break  -- the index of the first
\* pattern of the list that matches somewhere, 0 for none
FirstScorePattern(s, patterns) ==
    LET is == {i \in 1..Len(patterns) : ScoreSearch(s, patterns[i]) > 0}
    IN  IF is = {} THEN 0 ELSE Min(is)

FirstListPattern(s, patterns) ==
    LET is == {i \in 1..Len(patterns) : ListSearch(s, patterns[i]) > 0}
    IN  IF is = {} THEN 0 ELSE Min(is)

ExtractScore(s, patterns) ==
    LET i == FirstScorePattern(s, patterns)
    IN  IF i = 0 THEN None ELSE ScoreGroup(s, ScoreSearch(s, patterns[i]))

ExtractTimestamps(s) ==
    LET i == FirstListPattern(s, timestamp_patterns)
    IN  IF i = 0 THEN <<>>
        ELSE FindAllTimes(ListGroup(s, ListSearch(s, timestamp_patterns[i])), 1)

_extract_analysis_data_from_response(s) ==
    [timestamps |-> ExtractTimestamps(s),
     liveness_score |-> ExtractScore(s, liveness_patterns),
     biometric_score |-> ExtractScore(s, biometric_patterns),
     spoofing_risk_score |-> ExtractScore(s, <<spoofing_score_pattern>>)]

NoData == [timestamps |-> <<>>, liveness_score |-> None, biometric_score |-> None,
           spoofing_risk_score |-> None]

\* Python truth value of a score: None and 0 are false
Truthy(score) == score # None /\ score # 0

score_emoji(score) ==
    IF score >= 8 THEN "ok" ELSE IF score >= 6 THEN "warn" ELSE "bad"

risk_level(score) ==
    IF score <= 3 THEN "low" ELSE IF score <= 6 THEN "medium" ELSE "high"

NothingShown == [section |-> FALSE, liveness |-> "none", biometric |-> "none",
                 risk |-> "none"]

\* the score section of analyze_person_in_video: what is printed for the data
ShowScores(data) ==
    IF Truthy(data.liveness_score) \/ Truthy(data.biometric_score)
          \/ Truthy(data.spoofing_risk_score)
    THEN [section |-> TRUE,
          liveness |-> IF data.liveness_score # None
                       THEN score_emoji(data.liveness_score) ELSE "none",
          biometric |-> IF data.biometric_score # None
                        THEN score_emoji(data.biometric_score) ELSE "none",
          risk |-> IF data.spoofing_risk_score # None
                   THEN risk_level(data.spoofing_risk_score) ELSE "none"]
    ELSE NothingShown

(***************************************************************************)
(* Timestamps and frames.  A timestamp is the character sequence the       *)
(* parser produced; a frame rate is the rational num/den.                  *)
(***************************************************************************)

\* s.split(c): the pieces of s between the occurrences of c
RECURSIVE Split(_, _)
Split(s, c) ==
    LET ps == {k \in 1..Len(s) : s[k] = c}
    IN  IF ps = {} THEN <<s>>
        ELSE <<SubSeq(s, 1, Min(ps) - 1)>> \o Split(SubSeq(s, Min(ps) + 1, Len(s)), c)

\* s.replace(a, b) for single characters
Replace(s, a, b) == [k \in 1..Len(s) |-> IF s[k] = a THEN b ELSE s[k]]

Contains(s, c) == \E k \in 1..Len(s) : s[k] = c

\* the decimal digits of n >= 0
RECURSIVE ToDigits(_)
ToDigits(n) ==
    IF n < 10 THEN <<DigitSeq[n + 1]>>
    ELSE ToDigits(n \div 10) \o <<DigitSeq[(n % 10) + 1]>>

\* str(n)
Str(n) == IF n < 0 THEN <<"-">> \o ToDigits(0 - n) ELSE ToDigits(n)

\* f"{n:02d}" for n >= 0
Fmt02d(n) == IF n < 10 THEN <<"0">> \o ToDigits(n) ELSE ToDigits(n)

time_part(timestamp) ==
    IF Contains(timestamp, ".") THEN Split(timestamp, ".")[1] ELSE timestamp

frame_offset(timestamp) ==
    IF Contains(timestamp, ".") THEN ToInt(Split(timestamp, ".")[2]) ELSE 0

total_seconds(timestamp) ==
    LET parts == Split(time_part(timestamp), ":")
    IN  IF Len(parts) = 2 THEN ToInt(parts[1]) * 60 + ToInt(parts[2])
        ELSE IF Len(parts) = 3
             THEN ToInt(parts[1]) * 3600 + ToInt(parts[2]) * 60 + ToInt(parts[3])
             ELSE 0

\* int(total_seconds * fps)
base_frame(timestamp, fps) == (total_seconds(timestamp) * fps.num) \div fps.den

_convert_timestamp_to_frame_info(timestamp, fps) ==
    [total_seconds |-> total_seconds(timestamp),
     frame_offset |-> frame_offset(timestamp),
     exact_frame |-> base_frame(timestamp, fps) + frame_offset(timestamp),
     timestamp_with_frame |->
         time_part(timestamp) \o <<".">> \o Fmt02d(frame_offset(timestamp))]

NoFrameInfo == [total_seconds |-> 0, frame_offset |-> 0, exact_frame |-> 0,
                timestamp_with_frame |-> <<>>]

\* if exact_frame >= total_frames: exact_frame = total_frames - 1
ClampFrame(exact_frame, total_frames) ==
    IF exact_frame >= total_frames THEN total_frames - 1 ELSE exact_frame

\* ':' and '.' both written as '-'
safe_timestamp_dashes(timestamp) == Replace(Replace(timestamp, ":", "-"), ".", "-")

safe_timestamp(timestamp) == Replace(Replace(timestamp, ":", "-"), ".", "_")

\* a file name without the index of the timestamp
FileNameNoIndex(i, timestamp, exact_frame) ==
    <<"evidence", "_">> \o safe_timestamp(timestamp)
        \o <<"_", "frame">> \o Str(exact_frame) \o <<".jpg">>

\* f"evidence_{i+1}_{safe_timestamp}_frame{exact_frame}.jpg" for the 0-based i;
\* "evidence", "frame" and ".jpg" are one token each
FileName(i, timestamp, exact_frame) ==
    <<"evidence", "_">> \o Str(i + 1) \o <<"_">> \o safe_timestamp(timestamp)
        \o <<"_", "frame">> \o Str(exact_frame) \o <<".jpg">>

(***************************************************************************)
(* The comparison sheet.                                                   *)
(***************************************************************************)
img_width == 300

img_height == 300

MaxCols == 4

cols(n) == IF n + 1 < MaxCols THEN n + 1 ELSE MaxCols

rows(n) == (n + 1 + cols(n) - 1) \div cols(n)

canvas_width(n) == cols(n) * img_width + (cols(n) + 1) * 20

canvas_height(n) == rows(n) * (img_height + 40) + 40

\* the column and row of the screenshot with the 0-based index i
col(i, n) == IF (i + 1) % cols(n) = 0 THEN cols(n) ELSE (i + 1) % cols(n)

row(i, n) ==
    IF (i + 1) % cols(n) = 0 THEN ((i + 1) \div cols(n)) - 1 ELSE (i + 1) \div cols(n)

paste_x(i, n) == col(i, n) * (img_width + 20)

paste_y(i, n) == row(i, n) * (img_height + 40) + 40

\* "_".join(parts)
RECURSIVE JoinUnderscore(_)
JoinUnderscore(parts) ==
    IF Len(parts) = 0 THEN <<>>
    ELSE IF Len(parts) = 1 THEN parts[1]
    ELSE parts[1] \o <<"_">> \o JoinUnderscore(Tail(parts))

\* s.replace(tok, ''): the token removed
Remove(s, tok) == SelectSeq(s, LAMBDA c : c # tok)

\* the label drawn for a screenshot: [timestamp, frame_num]; frame_num is <<>>
\* for a file name of the old format
Label(filename) ==
    LET parts == Split(filename, "_")
        last == parts[Len(parts)]
    IN  IF Len(parts) >= 4 /\ Contains(last, "frame")
        THEN [timestamp |->
                  Replace(Replace(JoinUnderscore(SubSeq(parts, 3, Len(parts) - 1)),
                                  "-", ":"), "_", "."),
              frame_num |-> Remove(Remove(last, ".jpg"), "frame")]
        ELSE [timestamp |-> Remove(Replace(parts[3], "-", ":"), ".jpg"),
              frame_num |-> <<>>]

(***************************************************************************)
(* Bounds and the inputs drawn from them.                                  *)
(***************************************************************************)
MaxPolls == 2

MaxFrags == 2

MaxTimestamps == 2

MaxShots == 5

MaxIndex == 10

ProgressSteps == 100

AnalysisFast == 30

AnalysisSlow == 40

AnalysisFinish == 30

AnalysisSteps == AnalysisFast + AnalysisSlow + AnalysisFinish

FileSet == {"ref", "video"}

ThreadSet == {"ref", "video", "analysis"}

ScoreFrag(label, digits) == <<label, " ">> \o digits \o <<"/", "1", "0">>

T0009_15 == <<"0", "0", ":", "0", "9", ".", "1", "5">>

T0009_45 == <<"0", "0", ":", "0", "9", ".", "4", "5">>

T0000_00 == <<"0", "0", ":", "0", "0", ".", "0", "0">>

T1_05 == <<"1", ":", "0", "5">>

T0010 == <<"0", "0", ":", "1", "0">>

T010203_29 == <<"0", "1", ":", "0", "2", ":", "0", "3", ".", "2", "9">>

T000001_30 == <<"0", "0", ":", "0", "0", ":", "0", "1", ".", "3", "0">>

T0000_5 == <<"0", "0", ":", "0", "0", ".", "5">>

SampleTimestamps ==
    {T0009_15, T0009_45, T0000_00, T1_05, T0010, T010203_29, T000001_30, T0000_5}

ListFrag(label, inner) == <<label, " ", "[">> \o inner \o <<"]">>

Fragments ==
    { ScoreFrag("ZH_LIVENESS_SCORE:", <<"8">>),
      ScoreFrag("ZH_LIVENESS_SCORE:", <<"5">>),
      ScoreFrag("LIVENESS_SCORE:", <<"3">>),
      ScoreFrag("liveness_score:", <<"9">>),
      <<"ZH_LIVENESS_SCORE:", " ", "x">>,
      <<"ZH_LIVENESS_SCORE:", "7", "/", "5">>,
      <<"ZH_BIOMETRIC_SCORE:", "\n", "6", "/", "1", "0", "0">>,
      ScoreFrag("BIOMETRIC_SCORE:", <<"2">>),
      ScoreFrag("ZH_SPOOFING_RISK_SCORE:", <<"0">>),
      ScoreFrag("ZH_SPOOFING_RISK_SCORE:", <<"3">>),
      ScoreFrag("ZH_SPOOFING_RISK_SCORE:", <<"4">>),
      ScoreFrag("ZH_SPOOFING_RISK_SCORE:", <<"6">>),
      ScoreFrag("ZH_SPOOFING_RISK_SCORE:", <<"7">>),
      ScoreFrag("ZH_SPOOFING_RISK_SCORE:", <<"1", "0">>),
      ScoreFrag("ZH_SPOOFING_RISK_SCORE:", <<"1", "5">>),
      ScoreFrag("SPOOFING_RISK_SCORE:", <<"5">>),
      ListFrag("ZH_EVIDENCE_TIMESTAMPS:", T0009_15 \o <<",", " ">> \o T010203_29),
      ListFrag("ZH_EVIDENCE_TIMESTAMPS:", <<>>),
      ListFrag("ZH_EVIDENCE_TIMESTAMPS:", <<"x", ":", "1">>),
      ListFrag("EVIDENCE_TIMESTAMPS:", T1_05),
      ListFrag("evidence_timestamps:", <<"1", "2", "3", ":", "4", "5", "6">>),
      ListFrag("ZH_EVIDENCE_TIMESTAMPS:", T0010 \o <<",", "\n">> \o T0000_5),
      <<"ZH_EVIDENCE_TIMESTAMPS:", "[">> \o T0010 }

\* the texts made of at most n fragments
RECURSIVE TextsUpTo(_)
TextsUpTo(n) ==
    IF n = 0 THEN {<<>>}
    ELSE LET prev == TextsUpTo(n - 1)
         IN  prev \cup {t \o f : t \in prev, f \in Fragments}

\* the responses the pipeline is run with
PipeResponses ==
    { <<>>,
      ScoreFrag("ZH_LIVENESS_SCORE:", <<"8">>)
          \o ListFrag("ZH_EVIDENCE_TIMESTAMPS:", T0009_15 \o <<",", " ">> \o T010203_29),
      ListFrag("EVIDENCE_TIMESTAMPS:", T1_05)
          \o ScoreFrag("ZH_SPOOFING_RISK_SCORE:", <<"7">>) }

FrameRates == {[num |-> 30, den |-> 1], [num |-> 30000, den |-> 1001]}

FrameCounts == {0, 1, 300}

NoVideo == [opened |-> FALSE, fps |-> [num |-> 0, den |-> 1], total_frames |-> 0]

Videos ==
    {NoVideo} \cup
    {[opened |-> TRUE, fps |-> r, total_frames |-> c] : r \in FrameRates, c \in FrameCounts}

\* the lists of at most n sample timestamps
RECURSIVE TimestampLists(_)
TimestampLists(n) ==
    IF n = 0 THEN {<<>>}
    ELSE LET prev == TimestampLists(n - 1)
         IN  prev \cup {Append(l, t) : l \in prev, t \in SampleTimestamps}

T010203 == <<"0", "1", ":", "0", "2", ":", "0", "3">>

T1_02_03_4 == <<"1", ":", "0", "2", ":", "0", "3", ".", "4">>

\* timestamps of every shape of time_pattern: M:SS, MM:SS, MM:SS.F, MM:SS.FF,
\* HH:MM:SS, H:MM:SS.F, HH:MM:SS.FF
NameTimestamps == SampleTimestamps \cup {T010203, T1_02_03_4}

\* frame numbers written into a file name: one to six digits, and the -1 that
\* the clamp produces for a video without frames
FrameNumbers == {-1, 0, 7, 15, 315, 111690}

SampleSeq == <<T0009_15, T010203_29, T1_05, T0000_5, T0010, T0009_45, T0000_00, T000001_30>>

\* n screenshot files as _extract_video_frames names them
Shots(n) ==
    [i \in 1..n |-> FileName(i - 1, SampleSeq[((i - 1) % Len(SampleSeq)) + 1], 15 * i)]

\* no label drawn yet
NoLabel == [timestamp |-> <<>>, frame_num |-> <<>>]

NoCanvas == [width |-> 0, height |-> 0, cols |-> 0, rows |-> 0]

Idle == [at |-> "idle", i |-> 0]

At(op, f) == [op |-> op, f |-> f]

(***************************************************************************)
(* _extract_video_frames, one action per statement group.  step says where *)
(* the call is; a caller starts it at "frames_open" and resumes at         *)
(* "frames_done" or "frames_raised".                                       *)
(***************************************************************************)

\* os.makedirs(output_dir, exist_ok=True) raises: the call ends with the exception
FramesMkdirRaise ==
    /\ step.at = "frames_open"
    /\ timestamps # <<>>
    /\ step' = [at |-> "frames_raised", i |-> 0]
    /\ UNCHANGED <<pipeVars, failures, parseVars, frameVars, sheetVars>>

\* if not timestamps: return []; cap = cv2.VideoCapture(..); if not cap.isOpened(): return []
FramesOpen ==
    /\ step.at = "frames_open"
    /\ screenshot_files' = <<>>
    /\ seeks' = <<>>
    /\ reads' = <<>>
    /\ step' = IF timestamps = <<>> \/ ~video.opened
               THEN [at |-> "frames_done", i |-> 0]
               ELSE [at |-> "frames_loop", i |-> 0]
    /\ UNCHANGED <<pipeVars, failures, parseVars, sheetVars, timestamps, video, frame_info>>

\* one iteration of "for i, timestamp in enumerate(timestamps)"; ret is what
\* cap.read() answers
FrameIter ==
    /\ step.at = "frames_loop"
    /\ step.i < Len(timestamps)
    /\ LET timestamp == timestamps[step.i + 1]
           info == _convert_timestamp_to_frame_info(timestamp, video.fps)
           exact_frame == ClampFrame(info.exact_frame, video.total_frames)
       IN  /\ frame_info' = info
           /\ seeks' = Append(seeks, exact_frame)
           /\ \E ret \in BOOLEAN :
                 /\ reads' = Append(reads, ret)
                 /\ screenshot_files' =
                        IF ret
                        THEN Append(screenshot_files, FileName(step.i, timestamp, exact_frame))
                        ELSE screenshot_files
    /\ step' = [step EXCEPT !.i = step.i + 1]
    /\ UNCHANGED <<pipeVars, failures, parseVars, sheetVars, timestamps, video>>

\* cap.release(); return extracted_files
FramesRelease ==
    /\ step.at = "frames_loop"
    /\ step.i = Len(timestamps)
    /\ step' = [at |-> "frames_done", i |-> 0]
    /\ UNCHANGED <<pipeVars, failures, parseVars, frameVars, sheetVars>>

FramesNext == FramesMkdirRaise \/ FramesOpen \/ FrameIter \/ FramesRelease

(***************************************************************************)
(* _create_comparison_image.  A caller starts it at "sheet_open" and       *)
(* resumes at "sheet_done"; every exception is caught inside.              *)
(***************************************************************************)

\* if not screenshot_files: return None; open and resize the reference photo,
\* create the canvas, paste the reference photo at (20, 40)
SheetOpen ==
    /\ step.at = "sheet_open"
    /\ IF screenshot_files = <<>>
       THEN /\ comparison_file' = "None"
            /\ step' = [at |-> "sheet_done", i |-> 0]
            /\ UNCHANGED <<canvas, pasted, drawn_label>>
       ELSE LET n == Len(screenshot_files)
            IN  /\ canvas' = [width |-> canvas_width(n), height |-> canvas_height(n),
                              cols |-> cols(n), rows |-> rows(n)]
                /\ pasted' = {[img |-> 0, x |-> 20, y |-> 40]}
                /\ step' = [at |-> "sheet_loop", i |-> 0]
                /\ UNCHANGED <<comparison_file, drawn_label>>
    /\ UNCHANGED <<pipeVars, failures, parseVars, frameVars>>

\* Image.open(reference_photo_path) raises: the outer except returns None
SheetOpenRaise ==
    /\ step.at = "sheet_open"
    /\ screenshot_files # <<>>
    /\ comparison_file' = "None"
    /\ failures' = failures \cup {"compare"}
    /\ step' = [at |-> "sheet_done", i |-> 0]
    /\ UNCHANGED <<pipeVars, parseVars, frameVars, canvas, pasted, drawn_label>>

\* one iteration of "for i, screenshot_file in enumerate(screenshot_files)": the
\* screenshot is pasted and labelled, or Image.open raises and the inner except
\* skips it
SheetPaste ==
    /\ step.at = "sheet_loop"
    /\ step.i < Len(screenshot_files)
    /\ \E opens \in BOOLEAN :
          /\ pasted' = IF opens
                       THEN pasted \cup
                            {[img |-> step.i + 1,
                              x |-> paste_x(step.i, Len(screenshot_files)),
                              y |-> paste_y(step.i, Len(screenshot_files))]}
                       ELSE pasted
          /\ drawn_label' = IF opens THEN Label(screenshot_files[step.i + 1])
                            ELSE drawn_label
    /\ step' = [step EXCEPT !.i = step.i + 1]
    /\ UNCHANGED <<pipeVars, failures, parseVars, frameVars, canvas, comparison_file>>

\* canvas.save(comparison_path, ..); return comparison_path
SheetSave ==
    /\ step.at = "sheet_loop"
    /\ step.i = Len(screenshot_files)
    /\ comparison_file' = "screenshots/comparison_evidence.jpg"
    /\ step' = [at |-> "sheet_done", i |-> 0]
    /\ UNCHANGED <<pipeVars, failures, parseVars, frameVars, canvas, pasted, drawn_label>>

\* canvas.save raises: the outer except returns None
SheetSaveRaise ==
    /\ step.at = "sheet_loop"
    /\ step.i = Len(screenshot_files)
    /\ comparison_file' = "None"
    /\ failures' = failures \cup {"compare"}
    /\ step' = [at |-> "sheet_done", i |-> 0]
    /\ UNCHANGED <<pipeVars, parseVars, frameVars, canvas, pasted, drawn_label>>

SheetNext == SheetOpen \/ SheetOpenRaise \/ SheetPaste \/ SheetSave \/ SheetSaveRaise

(***************************************************************************)
(* _extract_analysis_data_from_response and the score section, on their    *)
(* own.                                                                    *)
(***************************************************************************)
ParseExtract ==
    /\ step.at = "parse_text"
    /\ analysis_data' = _extract_analysis_data_from_response(response_text)
    /\ step' = [at |-> "parse_data", i |-> 0]
    /\ UNCHANGED <<pipeVars, failures, frameVars, sheetVars, response_text, shown>>

ParseShow ==
    /\ step.at = "parse_data"
    /\ shown' = ShowScores(analysis_data)
    /\ step' = [at |-> "parse_shown", i |-> 0]
    /\ UNCHANGED <<pipeVars, failures, frameVars, sheetVars, response_text, analysis_data>>

ParseNext == ParseExtract \/ ParseShow

(***************************************************************************)
(* The file name of a screenshot, written by _extract_video_frames and     *)
(* read back by _create_comparison_image, on its own.  The directory that  *)
(* os.path.join puts in front is the one os.path.basename takes off.       *)
(***************************************************************************)
\* safe_timestamp = ..; filename = f"evidence_{i+1}_{safe_timestamp}_frame{exact_frame}.jpg"
NameWrite ==
    /\ step.at = "name_write"
    /\ screenshot_files' = <<FileName(step.i, timestamps[1], seeks[1])>>
    /\ step' = [step EXCEPT !.at = "name_read"]
    /\ UNCHANGED <<pipeVars, failures, parseVars, sheetVars, timestamps, video,
                   frame_info, seeks, reads>>

\* filename = os.path.basename(screenshot_file); parts = filename.split('_'); .. label
NameRead ==
    /\ step.at = "name_read"
    /\ drawn_label' = Label(screenshot_files[1])
    /\ step' = [step EXCEPT !.at = "name_done"]
    /\ UNCHANGED <<pipeVars, failures, parseVars, frameVars, canvas, pasted,
                   comparison_file>>

NameNext == NameWrite \/ NameRead

(***************************************************************************)
(* analyze_person_in_video: the main thread, the progress-simulation       *)
(* threads and the remote file service.                                    *)
(***************************************************************************)
StepName(op, f) ==
    CASE op = "upload" /\ f = "ref" -> "upload_ref"
      [] op = "upload" /\ f = "video" -> "upload_video"
      [] op = "wait" /\ f = "ref" -> "wait_ref"
      [] op = "wait" /\ f = "video" -> "wait_video"
      [] OTHER -> op

NotReturned == [returned |-> FALSE, success |-> FALSE, error |-> ""]

\* except Exception as e: return {'success': False, 'error': str(e)}
ExceptReturn(site, e) ==
    /\ failures' = failures \cup {site}
    /\ result' = [returned |-> TRUE, success |-> FALSE, error |-> e]
    /\ pc' = At("returned", "-")

\* _upload_with_progress up to progress_thread.start(): the bar is created and
\* the simulation thread started
UploadBegin(f) ==
    /\ pc = At("upload", f)
    /\ trace' = Append(trace, StepName("upload", f))
    /\ bar' = [bar EXCEPT ![f] = [n |-> 0, closed |-> FALSE]]
    /\ thr' = [thr EXCEPT ![f] = [i |-> 0, st |-> "update"]]
    /\ pc' = At("upload_call", f)
    /\ UNCHANGED <<remote, observed, fetched, uploaded, get_calls, delete_attempted, result,
                   upload_progress, report>>
    /\ UNCHANGED <<failures, parseVars, frameVars, sheetVars, step>>

\* os.path.getsize in _get_file_info raises: no bar, no thread
GetFileInfoRaise(f) ==
    /\ pc = At("upload", f)
    /\ trace' = Append(trace, StepName("upload", f))
    /\ ExceptReturn(StepName("upload", f), "getsize")
    /\ UNCHANGED <<remote, observed, fetched, uploaded, get_calls, delete_attempted, thr, bar,
                   upload_progress, report>>
    /\ UNCHANGED <<parseVars, frameVars, sheetVars, step>>

\* genai.upload_file returns the file, in the state the service gives it
UploadOk(f) ==
    /\ pc = At("upload_call", f)
    /\ \E st \in {"PROCESSING", "ACTIVE", "FAILED"} :
          /\ remote' = [remote EXCEPT ![f] = st]
          /\ observed' = [observed EXCEPT ![f] = st]
    /\ uploaded' = uploaded \cup {f}
    /\ pc' = At("upload_join", f)
    /\ UNCHANGED <<fetched, get_calls, delete_attempted, result, trace, thr, bar,
                   upload_progress, report>>
    /\ UNCHANGED <<failures, parseVars, frameVars, sheetVars, step>>

\* genai.upload_file raises: except: progress_bar.close(); raise -- the thread is
\* not joined
UploadRaise(f) ==
    /\ pc = At("upload_call", f)
    /\ bar' = [bar EXCEPT ![f].closed = TRUE]
    /\ ExceptReturn(StepName("upload", f), "upload_file")
    /\ UNCHANGED <<remote, observed, fetched, uploaded, get_calls, delete_attempted, trace, thr,
                   upload_progress, report>>
    /\ UNCHANGED <<parseVars, frameVars, sheetVars, step>>

AfterUpload(f) == IF f = "ref" THEN At("upload", "video") ELSE At("wait", "ref")

\* progress_thread.join(); progress_bar.close(); return uploaded_file
UploadJoin(f) ==
    /\ pc = At("upload_join", f)
    /\ thr[f].st = "done"
    /\ bar' = [bar EXCEPT ![f].closed = TRUE]
    /\ pc' = AfterUpload(f)
    /\ UNCHANGED <<remote, observed, fetched, uploaded, get_calls, delete_attempted, result,
                   trace, thr, upload_progress, report>>
    /\ UNCHANGED <<failures, parseVars, frameVars, sheetVars, step>>

\* simulate_upload_progress: time.sleep(0.1); progress_bar.update(1)
ThreadUpdate(f) ==
    /\ thr[f].st = "update"
    /\ bar' = [bar EXCEPT ![f].n = bar[f].n + 1]
    /\ thr' = [thr EXCEPT ![f].st = "assign"]
    /\ UNCHANGED <<pc, remote, observed, fetched, uploaded, get_calls, delete_attempted, result,
                   trace, upload_progress, report>>
    /\ UNCHANGED <<failures, parseVars, frameVars, sheetVars, step>>

\* simulate_upload_progress: self.upload_progress = i + 1, and the loop test
ThreadAssign(f) ==
    /\ thr[f].st = "assign"
    /\ upload_progress' = thr[f].i + 1
    /\ thr' = [thr EXCEPT ![f] = [i |-> thr[f].i + 1,
                                  st |-> IF thr[f].i + 1 = ProgressSteps
                                         THEN "done" ELSE "update"]]
    /\ UNCHANGED <<pc, remote, observed, fetched, uploaded, get_calls, delete_attempted, result,
                   trace, bar, report>>
    /\ UNCHANGED <<failures, parseVars, frameVars, sheetVars, step>>

\* the remote service finishes processing a file
RemoteProgress(f) ==
    /\ remote[f] = "PROCESSING"
    /\ \E st \in {"ACTIVE", "FAILED"} : remote' = [remote EXCEPT ![f] = st]
    /\ UNCHANGED <<pc, observed, fetched, uploaded, get_calls, delete_attempted, result,
                   trace, thr, bar, upload_progress, report>>
    /\ UNCHANGED <<failures, parseVars, frameVars, sheetVars, step>>

\* _wait_for_file_processing up to the loop: uploaded_file is the argument
WaitBegin(f) ==
    /\ pc = At("wait", f)
    /\ trace' = Append(trace, StepName("wait", f))
    /\ fetched' = [fetched EXCEPT ![f] = observed[f]]
    /\ pc' = At("wait_loop", f)
    /\ UNCHANGED <<remote, observed, uploaded, get_calls, delete_attempted, result,
                   thr, bar, upload_progress, report>>
    /\ UNCHANGED <<failures, parseVars, frameVars, sheetVars, step>>

WaitLoopNever(f) == FALSE

WaitLoopUntilActive(f) == fetched[f] # "ACTIVE"

\* while uploaded_file.state.name == "PROCESSING"
WaitLoopCondition(f) == fetched[f] = "PROCESSING"

\* the loop body: time.sleep(1); uploaded_file = genai.get_file(uploaded_file.name)
WaitPollOk(f) ==
    /\ pc = At("wait_loop", f)
    /\ WaitLoopCondition(f)
    /\ fetched' = [fetched EXCEPT ![f] = remote[f]]
    /\ get_calls' = [get_calls EXCEPT ![f] =
                         IF get_calls[f] < MaxPolls THEN get_calls[f] + 1 ELSE MaxPolls]
    /\ UNCHANGED <<pc, remote, observed, uploaded, delete_attempted, result, trace, thr,
                   bar, upload_progress, report>>
    /\ UNCHANGED <<failures, parseVars, frameVars, sheetVars, step>>

\* genai.get_file raises in the loop body
WaitPollRaise(f) ==
    /\ pc = At("wait_loop", f)
    /\ WaitLoopCondition(f)
    /\ ExceptReturn(StepName("wait", f), "get_file")
    /\ UNCHANGED <<remote, observed, fetched, uploaded, get_calls, delete_attempted,
                   trace, thr, bar, upload_progress, report>>
    /\ UNCHANGED <<parseVars, frameVars, sheetVars, step>>

AfterWait(f) == IF f = "ref" THEN At("wait", "video") ELSE At("generate", "-")

\* the loop ends: return uploaded_file, which the caller assigns to its variable
WaitReturn(f) ==
    /\ pc = At("wait_loop", f)
    /\ ~WaitLoopCondition(f)
    /\ observed' = [observed EXCEPT ![f] = fetched[f]]
    /\ pc' = AfterWait(f)
    /\ UNCHANGED <<remote, fetched, uploaded, get_calls, delete_attempted, result,
                   trace, thr, bar, upload_progress, report>>
    /\ UNCHANGED <<failures, parseVars, frameVars, sheetVars, step>>

\* the prompt is built, the analysis bar created and its thread started
GenerateBegin ==
    /\ pc = At("generate", "-")
    /\ trace' = Append(trace, "generate")
    /\ bar' = [bar EXCEPT !["analysis"] = [n |-> 0, closed |-> FALSE]]
    /\ thr' = [thr EXCEPT !["analysis"] = [i |-> 0, st |-> "update"]]
    /\ pc' = At("generate_call", "-")
    /\ UNCHANGED <<remote, observed, fetched, uploaded, get_calls, delete_attempted, result,
                   upload_progress, report>>
    /\ UNCHANGED <<failures, parseVars, frameVars, sheetVars, step>>

\* simulate_analysis_progress: time.sleep(..); analysis_progress.update(1)
AnalysisTick ==
    /\ thr["analysis"].st = "update"
    /\ bar' = [bar EXCEPT !["analysis"].n = bar["analysis"].n + 1]
    /\ thr' = [thr EXCEPT !["analysis"] =
                   [i |-> thr["analysis"].i + 1,
                    st |-> IF thr["analysis"].i + 1 = AnalysisSteps
                           THEN "done" ELSE "update"]]
    /\ UNCHANGED <<pc, remote, observed, fetched, uploaded, get_calls, delete_attempted, result,
                   trace, upload_progress, report>>
    /\ UNCHANGED <<failures, parseVars, frameVars, sheetVars, step>>

\* self.model.generate_content returns
GenerateOk ==
    /\ pc = At("generate_call", "-")
    /\ \E r \in PipeResponses : response_text' = r
    /\ pc' = At("generate_join", "-")
    /\ UNCHANGED <<remote, observed, fetched, uploaded, get_calls, delete_attempted, result,
                   trace, thr, bar, upload_progress, report>>
    /\ UNCHANGED <<failures, frameVars, sheetVars, step, analysis_data, shown>>

\* self.model.generate_content raises: the analysis thread is not joined
GenerateRaise ==
    /\ pc = At("generate_call", "-")
    /\ ExceptReturn("generate", "generate_content")
    /\ UNCHANGED <<remote, observed, fetched, uploaded, get_calls, delete_attempted, trace, thr,
                   bar, upload_progress, report>>
    /\ UNCHANGED <<parseVars, frameVars, sheetVars, step>>

\* progress_thread.join(); analysis_progress.close()
GenerateJoin ==
    /\ pc = At("generate_join", "-")
    /\ thr["analysis"].st = "done"
    /\ bar' = [bar EXCEPT !["analysis"].closed = TRUE]
    /\ pc' = At("parse", "-")
    /\ UNCHANGED <<remote, observed, fetched, uploaded, get_calls, delete_attempted, result,
                   trace, thr, upload_progress, report>>
    /\ UNCHANGED <<failures, parseVars, frameVars, sheetVars, step>>

\* print(response.text) raises (a response without text)
ResponseTextRaise ==
    /\ pc = At("parse", "-")
    /\ trace' = Append(trace, "parse")
    /\ ExceptReturn("parse", "response.text")
    /\ UNCHANGED <<remote, observed, fetched, uploaded, get_calls, delete_attempted, thr, bar,
                   upload_progress, report>>
    /\ UNCHANGED <<parseVars, frameVars, sheetVars, step>>

\* print(response.text); the data are extracted and the score section printed
ParseCall ==
    /\ pc = At("parse", "-")
    /\ trace' = Append(trace, "parse")
    /\ analysis_data' = _extract_analysis_data_from_response(response_text)
    /\ timestamps' = analysis_data'.timestamps
    /\ shown' = ShowScores(analysis_data')
    /\ screenshot_files' = <<>>
    /\ comparison_file' = "None"
    /\ pc' = IF timestamps' # <<>> THEN At("extract", "-") ELSE At("cleanup", "-")
    /\ UNCHANGED <<remote, observed, fetched, uploaded, get_calls, delete_attempted, result,
                   thr, bar, upload_progress, report>>
    /\ UNCHANGED <<failures, response_text, video, frame_info, seeks, reads, canvas,
                   pasted, drawn_label, step>>

\* screenshot_files = self._extract_video_frames(video_path, timestamps): the call
ExtractBegin ==
    /\ pc = At("extract", "-")
    /\ trace' = Append(trace, "extract")
    /\ \E v \in Videos : video' = v
    /\ step' = [at |-> "frames_open", i |-> 0]
    /\ pc' = At("extract_call", "-")
    /\ UNCHANGED <<remote, observed, fetched, uploaded, get_calls, delete_attempted, result,
                   thr, bar, upload_progress, report>>
    /\ UNCHANGED <<failures, parseVars, sheetVars, timestamps, screenshot_files,
                   frame_info, seeks, reads>>

\* _extract_video_frames raised
ExtractRaise ==
    /\ pc = At("extract_call", "-")
    /\ step.at = "frames_raised"
    /\ step' = Idle
    /\ ExceptReturn("extract", "makedirs")
    /\ UNCHANGED <<remote, observed, fetched, uploaded, get_calls, delete_attempted, trace, thr,
                   bar, upload_progress, report>>
    /\ UNCHANGED <<parseVars, frameVars, sheetVars>>

\* _extract_video_frames returned
ExtractReturn ==
    /\ pc = At("extract_call", "-")
    /\ step.at = "frames_done"
    /\ step' = Idle
    /\ pc' = IF screenshot_files # <<>> THEN At("compare", "-") ELSE At("cleanup", "-")
    /\ UNCHANGED <<remote, observed, fetched, uploaded, get_calls, delete_attempted, result,
                   trace, thr, bar, upload_progress, report>>
    /\ UNCHANGED <<failures, parseVars, frameVars, sheetVars>>

\* comparison_file = self._create_comparison_image(..): the call
CompareBegin ==
    /\ pc = At("compare", "-")
    /\ trace' = Append(trace, "compare")
    /\ step' = [at |-> "sheet_open", i |-> 0]
    /\ pc' = At("compare_call", "-")
    /\ UNCHANGED <<remote, observed, fetched, uploaded, get_calls, delete_attempted, result,
                   thr, bar, upload_progress, report>>
    /\ UNCHANGED <<failures, parseVars, frameVars, sheetVars>>

\* _create_comparison_image returned (the path, or None after a caught exception)
CompareReturn ==
    /\ pc = At("compare_call", "-")
    /\ step.at = "sheet_done"
    /\ step' = Idle
    /\ pc' = At("cleanup", "-")
    /\ UNCHANGED <<remote, observed, fetched, uploaded, get_calls, delete_attempted, result,
                   trace, thr, bar, upload_progress, report>>
    /\ UNCHANGED <<failures, parseVars, frameVars, sheetVars>>

\* self._cleanup_files([reference_file, video_file]): the call
CleanupBegin ==
    /\ pc = At("cleanup", "-")
    /\ trace' = Append(trace, "cleanup")
    /\ pc' = At("delete", "ref")
    /\ UNCHANGED <<remote, observed, fetched, uploaded, get_calls, delete_attempted, result,
                   thr, bar, upload_progress, report>>
    /\ UNCHANGED <<failures, parseVars, frameVars, sheetVars, step>>

AfterDelete(f) == IF f = "ref" THEN At("delete", "video") ELSE At("return", "-")

\* genai.delete_file(file.name) succeeds
DeleteOk(f) ==
    /\ pc = At("delete", f)
    /\ delete_attempted' = delete_attempted \cup {f}
    /\ remote' = [remote EXCEPT ![f] = "DELETED"]
    /\ pc' = AfterDelete(f)
    /\ UNCHANGED <<observed, fetched, uploaded, get_calls, result, trace, thr, bar,
                   upload_progress, report>>
    /\ UNCHANGED <<failures, parseVars, frameVars, sheetVars, step>>

\* a _cleanup_files without its try/except: the exception reaches the caller's handler
DeleteRaiseUncaught(f) ==
    /\ pc = At("delete", f)
    /\ delete_attempted' = delete_attempted \cup {f}
    /\ ExceptReturn("delete", "delete_file")
    /\ UNCHANGED <<remote, observed, fetched, uploaded, get_calls, trace, thr, bar,
                   upload_progress, report>>
    /\ UNCHANGED <<parseVars, frameVars, sheetVars, step>>

\* genai.delete_file raises: the bare except prints and the loop goes on
DeleteRaise(f) ==
    /\ pc = At("delete", f)
    /\ delete_attempted' = delete_attempted \cup {f}
    /\ failures' = failures \cup {"delete"}
    /\ pc' = AfterDelete(f)
    /\ UNCHANGED <<remote, observed, fetched, uploaded, get_calls, result, trace, thr, bar,
                   upload_progress, report>>
    /\ UNCHANGED <<parseVars, frameVars, sheetVars, step>>

\* return {'success': True, ...}
Return ==
    /\ pc = At("return", "-")
    /\ result' = [returned |-> TRUE, success |-> TRUE, error |-> ""]
    /\ pc' = At("returned", "-")
    /\ UNCHANGED <<remote, observed, fetched, uploaded, get_calls, delete_attempted, trace, thr,
                   bar, upload_progress, report>>
    /\ UNCHANGED <<failures, parseVars, frameVars, sheetVars, step>>

\* main(): if result['success']: ... else: ... result['error']
MainReport ==
    /\ pc = At("returned", "-")
    /\ report' = IF result.success THEN "success" ELSE "failed"
    /\ pc' = At("exit", "-")
    /\ UNCHANGED <<remote, observed, fetched, uploaded, get_calls, delete_attempted, result,
                   trace, thr, bar, upload_progress>>
    /\ UNCHANGED <<failures, parseVars, frameVars, sheetVars, step>>

(***************************************************************************)
(* The specifications.                                                     *)
(***************************************************************************)
InitHelpers ==
    /\ response_text = <<>>
    /\ analysis_data = NoData
    /\ shown = NothingShown
    /\ timestamps = <<>>
    /\ screenshot_files = <<>>
    /\ video = NoVideo
    /\ frame_info = NoFrameInfo
    /\ seeks = <<>>
    /\ reads = <<>>
    /\ canvas = NoCanvas
    /\ pasted = {}
    /\ drawn_label = NoLabel
    /\ comparison_file = "None"

InitPipe ==
    /\ remote = [f \in FileSet |-> "ABSENT"]
    /\ observed = [f \in FileSet |-> "NONE"]
    /\ fetched = [f \in FileSet |-> "NONE"]
    /\ uploaded = {}
    /\ get_calls = [f \in FileSet |-> 0]
    /\ delete_attempted = {}
    /\ result = NotReturned
    /\ trace = <<>>
    /\ failures = {}
    /\ thr = [t \in ThreadSet |-> [i |-> 0, st |-> "unstarted"]]
    /\ bar = [t \in ThreadSet |-> [n |-> 0, closed |-> FALSE]]
    /\ upload_progress = 0
    /\ report = "none"

Init ==
    /\ pc = At("upload", "ref")
    /\ InitPipe
    /\ InitHelpers
    /\ step = Idle

Next ==
    \/ \E f \in FileSet :
          \/ UploadBegin(f) \/ GetFileInfoRaise(f) \/ UploadOk(f) \/ UploadRaise(f)
          \/ UploadJoin(f) \/ ThreadUpdate(f) \/ ThreadAssign(f) \/ RemoteProgress(f)
          \/ WaitBegin(f) \/ WaitPollOk(f) \/ WaitPollRaise(f) \/ WaitReturn(f)
          \/ DeleteOk(f) \/ DeleteRaise(f)
    \/ GenerateBegin \/ AnalysisTick \/ GenerateOk \/ GenerateRaise \/ GenerateJoin
    \/ ResponseTextRaise \/ ParseCall
    \/ ExtractBegin \/ FramesNext \/ ExtractRaise \/ ExtractReturn
    \/ CompareBegin \/ SheetNext \/ CompareReturn
    \/ CleanupBegin \/ Return \/ MainReport

Spec == Init /\ [][Next]_vars

\* the polling loop of _wait_for_file_processing keeps running
LiveSpec == Spec /\ \A f \in FileSet : WF_vars(WaitPollOk(f)) /\ WF_vars(WaitReturn(f))

\* _extract_analysis_data_from_response and the score section on a drawn text
ParseInit ==
    /\ pc = At("idle", "-")
    /\ InitPipe
    /\ response_text \in TextsUpTo(MaxFrags)
    /\ analysis_data = NoData
    /\ shown = NothingShown
    /\ timestamps = <<>>
    /\ screenshot_files = <<>>
    /\ video = NoVideo
    /\ frame_info = NoFrameInfo
    /\ seeks = <<>>
    /\ reads = <<>>
    /\ canvas = NoCanvas
    /\ pasted = {}
    /\ drawn_label = NoLabel
    /\ comparison_file = "None"
    /\ step = [at |-> "parse_text", i |-> 0]

ParseSpec == ParseInit /\ [][ParseNext]_vars

\* _extract_video_frames on a drawn list of timestamps and a drawn video
FrameInit ==
    /\ pc = At("idle", "-")
    /\ InitPipe
    /\ response_text = <<>>
    /\ analysis_data = NoData
    /\ shown = NothingShown
    /\ timestamps \in TimestampLists(MaxTimestamps)
    /\ screenshot_files = <<>>
    /\ video \in Videos
    /\ frame_info = NoFrameInfo
    /\ seeks = <<>>
    /\ reads = <<>>
    /\ canvas = NoCanvas
    /\ pasted = {}
    /\ drawn_label = NoLabel
    /\ comparison_file = "None"
    /\ step = [at |-> "frames_open", i |-> 0]

FrameSpec == FrameInit /\ [][FramesNext]_vars

\* _create_comparison_image on a drawn list of screenshot files
SheetInit ==
    /\ pc = At("idle", "-")
    /\ InitPipe
    /\ response_text = <<>>
    /\ analysis_data = NoData
    /\ shown = NothingShown
    /\ timestamps = <<>>
    /\ screenshot_files \in {Shots(n) : n \in 0..MaxShots}
    /\ video = NoVideo
    /\ frame_info = NoFrameInfo
    /\ seeks = <<>>
    /\ reads = <<>>
    /\ canvas = NoCanvas
    /\ pasted = {}
    /\ drawn_label = NoLabel
    /\ comparison_file = "None"
    /\ step = [at |-> "sheet_open", i |-> 0]

SheetSpec == SheetInit /\ [][SheetNext]_vars

\* a file name written and read back, for a drawn timestamp, index and frame number
NameInit ==
    /\ pc = At("idle", "-")
    /\ InitPipe
    /\ response_text = <<>>
    /\ analysis_data = NoData
    /\ shown = NothingShown
    /\ timestamps \in {<<t>> : t \in NameTimestamps}
    /\ screenshot_files = <<>>
    /\ video = NoVideo
    /\ frame_info = NoFrameInfo
    /\ seeks \in {<<n>> : n \in FrameNumbers}
    /\ reads = <<>>
    /\ canvas = NoCanvas
    /\ pasted = {}
    /\ drawn_label = NoLabel
    /\ comparison_file = "None"
    /\ step \in {[at |-> "name_write", i |-> i] : i \in 0..MaxIndex}

NameSpec == NameInit /\ [][NameNext]_vars

(***************************************************************************)
(* Properties of analyze_person_in_video (Spec, LiveSpec).                 *)
(***************************************************************************)
Range(q) == {q[k] : k \in DOMAIN q}

\* the failures that are caught where they occur and never reach the handler of
\* analyze_person_in_video
Swallowed == {"compare", "delete"}

Order == <<"upload_ref", "upload_video", "wait_ref", "wait_video", "generate",
           "parse", "extract", "compare", "cleanup">>

Rank(name) == CHOOSE k \in DOMAIN Order : Order[k] = name

\* the steps no run may skip on its way to a later step
Mandatory == {"upload_ref", "upload_video", "wait_ref", "wait_video", "generate", "parse"}

\* C1 as stated: analyze_person_in_video returns, and a failure raised at any
\* step, comparison-sheet creation and cleanup included, gives success = False
\* with an error string; success = True only after cleanup.
C1_AnyFailureGivesFailure ==
    result.returned =>
        /\ failures # {} => (~result.success /\ result.error # "")
        /\ result.success => "cleanup" \in Range(trace)

\* C1 amended: a failure raised in an upload, a processing wait, generate_content,
\* the reading of the response or frame extraction ends the run at once with
\* success = False and an error string; a failure inside comparison-sheet
\* creation or of delete_file is caught where it occurs and does not change the
\* result; success = True is returned only after cleanup has tried both deletions.
C1_CaughtOrSwallowed ==
    /\ result.returned <=> pc.op \in {"returned", "exit"}
    /\ (failures \ Swallowed # {}) => (result.returned /\ ~result.success)
    /\ result.returned =>
          /\ ~result.success <=> (failures \ Swallowed # {})
          /\ ~result.success <=> (result.error # "")
          /\ result.success =>
                /\ Mandatory \cup {"cleanup"} \subseteq Range(trace)
                /\ delete_attempted = FileSet
    /\ report = "success" => result.success
    /\ report = "failed" => (~result.success /\ result.error # "")

\* C1 witness: a run that returned success = True although delete_file and the
\* comparison sheet both failed
C1_Witness ==
    /\ result.returned
    /\ result.success
    /\ failures = {"compare", "delete"}

\* C2: the steps that run do so in the fixed order, none of the steps before
\* cleanup being skipped except frame extraction and the comparison sheet;
\* generate_content is called only after both uploads returned and both files
\* were observed in a state other than PROCESSING; the step at which an
\* exception reached the handler is the last step of the run.
C2_StepOrder ==
    /\ \A i, j \in DOMAIN trace : i < j => Rank(trace[i]) < Rank(trace[j])
    /\ \A i \in DOMAIN trace : \A m \in Mandatory :
          Rank(m) < Rank(trace[i]) => m \in Range(trace)
    /\ "compare" \in Range(trace) => "extract" \in Range(trace)
    /\ "generate" \in Range(trace) =>
          /\ uploaded = FileSet
          /\ \A f \in FileSet : /\ thr[f].st = "done"
                                /\ bar[f].closed
                                /\ observed[f] \in {"ACTIVE", "FAILED"}
    /\ \A site \in failures \ Swallowed :
          /\ trace[Len(trace)] = site
          /\ pc.op \in {"returned", "exit"}

\* C2 witness: a complete run with frame extraction, after a poll of the video
C2_Witness ==
    /\ pc = At("return", "-")
    /\ Range(trace) = Range(Order)
    /\ get_calls["video"] > 0

WaitReturned(f) == StepName("wait", f) \in Range(trace) /\ pc # At("wait_loop", f)
                      /\ StepName("wait", f) \notin failures

GetFileRaised == \E f \in FileSet : StepName("wait", f) \in failures

\* C3: get_file is issued only while the last observed state is PROCESSING; what
\* _wait_for_file_processing returns is the file object fetched last, in a state
\* other than PROCESSING; and, get_file not raising, once the remote file has left
\* PROCESSING the call returns.
C3_WaitForProcessing ==
    /\ [][\A f \in FileSet :
             (get_calls'[f] # get_calls[f] \/ fetched'[f] # fetched[f])
                 => (pc = At("wait", f) \/ fetched[f] = "PROCESSING")]_vars
    /\ [](\A f \in FileSet :
             WaitReturned(f) => /\ observed[f] = fetched[f]
                                /\ observed[f] \in {"ACTIVE", "FAILED"}
                                /\ (get_calls[f] > 0 => observed[f] = remote[f]
                                                        \/ remote[f] = "DELETED"))
    /\ ([]~GetFileRaised) =>
          \A f \in FileSet :
             (pc = At("wait_loop", f) /\ remote[f] # "PROCESSING") ~> WaitReturned(f)

\* C3 witness: the wait for the reference photo returned after two get_file calls
C3_Witness ==
    /\ WaitReturned("ref")
    /\ get_calls["ref"] = 2
    /\ pc = At("wait", "video")

\* C4 as stated: when analyze_person_in_video has returned, delete_file has been
\* attempted for every file that was uploaded in the run.
C4_UploadedFilesDeleted ==
    result.returned => uploaded \subseteq delete_attempted

\* _upload_with_progress(f) has exited, by return or by raise
UploadExited(f) ==
    /\ StepName("upload", f) \in Range(trace)
    /\ pc.op \notin {"upload_call", "upload_join"} \/ pc.f # f

\* C10 as stated: when _upload_with_progress has exited its simulation thread has
\* terminated, and right after a successful return upload_progress is 100.
C10_ThreadTerminatedAtExit ==
    \A f \in FileSet :
        /\ UploadExited(f) => thr[f].st \in {"unstarted", "done"}
        /\ (f \in uploaded /\ pc = AfterUpload(f)) => upload_progress = ProgressSteps

(***************************************************************************)
(* Properties of _extract_analysis_data_from_response and of the score     *)
(* section (ParseSpec).                                                    *)
(***************************************************************************)
Parsed == step.at \in {"parse_data", "parse_shown"}

HasScore(s, label) == \E p \in 1..Len(s) : ScoreMatchAt(s, p, label)

HasList(s, label) == \E p \in 1..Len(s) : ListMatchAt(s, p, label)

\* the number of the leftmost match of the label's score pattern
LeftmostScore(s, label) ==
    LET p == CHOOSE p \in 1..Len(s) :
                 /\ ScoreMatchAt(s, p, label)
                 /\ \A q \in 1..(p - 1) : ~ScoreMatchAt(s, q, label)
        q == SkipSpace(s, p + 1)
    IN  ToInt(SubSeq(s, q, DigitRunEnd(s, q)))

\* the bracketed text of the leftmost match of the label's list pattern
LeftmostList(s, label) ==
    LET p == CHOOSE p \in 1..Len(s) :
                 /\ ListMatchAt(s, p, label)
                 /\ \A q \in 1..(p - 1) : ~ListMatchAt(s, q, label)
    IN  ListGroup(s, p)

\* a score is None exactly when neither label matches, and else comes from the
\* leftmost match of the Chinese label, or of the English one when the Chinese
\* label matches nowhere
ScoreAsClaimed(s, value, zh, en) ==
    /\ value = None <=> (~HasScore(s, zh) /\ ~HasScore(s, en))
    /\ HasScore(s, zh) => value = LeftmostScore(s, zh)
    /\ (~HasScore(s, zh) /\ HasScore(s, en)) => value = LeftmostScore(s, en)

ScoresAsClaimed ==
    /\ ScoreAsClaimed(response_text, analysis_data.liveness_score,
                      "ZH_LIVENESS_SCORE:", "LIVENESS_SCORE:")
    /\ ScoreAsClaimed(response_text, analysis_data.biometric_score,
                      "ZH_BIOMETRIC_SCORE:", "BIOMETRIC_SCORE:")
    /\ ScoreAsClaimed(response_text, analysis_data.spoofing_risk_score,
                      "ZH_SPOOFING_RISK_SCORE:", "ZH_SPOOFING_RISK_SCORE:")

TimestampsFromFirstMatch ==
    LET s == response_text
        zh == "ZH_EVIDENCE_TIMESTAMPS:"
        en == "EVIDENCE_TIMESTAMPS:"
    IN  /\ HasList(s, zh) =>
              analysis_data.timestamps = FindAllTimes(LeftmostList(s, zh), 1)
        /\ (~HasList(s, zh) /\ HasList(s, en)) =>
              analysis_data.timestamps = FindAllTimes(LeftmostList(s, en), 1)
        /\ (~HasList(s, zh) /\ ~HasList(s, en)) => analysis_data.timestamps = <<>>

\* C5 as stated: each field keeps its default exactly when none of its label
\* patterns matches, and else is taken from the first match of the pattern of
\* highest priority.
C5_DefaultExactlyWhenNoMatch ==
    Parsed =>
        /\ ScoresAsClaimed
        /\ TimestampsFromFirstMatch
        /\ analysis_data.timestamps = <<>> <=>
              (~HasList(response_text, "ZH_EVIDENCE_TIMESTAMPS:")
                  /\ ~HasList(response_text, "EVIDENCE_TIMESTAMPS:"))

\* C5 amended: each score is None exactly when none of its label patterns
\* matches and else the number of the first match of the pattern of highest
\* priority; timestamps are the time-shaped pieces of the bracketed text of the
\* first match of the pattern of highest priority, so they are [] when no label
\* pattern matches and also when that text holds no time-shaped piece; no
\* field's extraction depends on another field's.
C5_FieldsIndependent ==
    Parsed =>
        /\ ScoresAsClaimed
        /\ TimestampsFromFirstMatch
        /\ \A k \in DOMAIN analysis_data.timestamps :
              TimeMatchLen(analysis_data.timestamps[k], 1)
                  = Len(analysis_data.timestamps[k])

\* C5 witness: the English liveness score is extracted from a text whose Chinese
\* liveness label is malformed, the other fields being absent
C5_Witness ==
    /\ Parsed
    /\ Contains(response_text, "ZH_LIVENESS_SCORE:")
    /\ analysis_data.liveness_score = 3
    /\ analysis_data.biometric_score = None

\* C6 as stated: the displayed risk level of an extracted spoofing risk score is
\* low exactly for 1-3, medium exactly for 4-6, high exactly for 7-10, and a
\* score outside 1..10 gets no level.
C6_RiskLevelAsPrompt ==
    (step.at = "parse_shown" /\ analysis_data.spoofing_risk_score # None) =>
        LET score == analysis_data.spoofing_risk_score
        IN  /\ shown.risk = "low" <=> score \in 1..3
            /\ shown.risk = "medium" <=> score \in 4..6
            /\ shown.risk = "high" <=> score \in 7..10

\* C12 as stated: the score section is displayed whenever at least one of the
\* three scores is not None, and within a displayed section a line is shown for
\* exactly the scores that are not None.
C12_SectionWhenAnyScore ==
    step.at = "parse_shown" =>
        /\ (\/ analysis_data.liveness_score # None
            \/ analysis_data.biometric_score # None
            \/ analysis_data.spoofing_risk_score # None) => shown.section
        /\ shown.section =>
              /\ shown.liveness # "none" <=> analysis_data.liveness_score # None
              /\ shown.biometric # "none" <=> analysis_data.biometric_score # None
              /\ shown.risk # "none" <=> analysis_data.spoofing_risk_score # None

(***************************************************************************)
(* Properties of _convert_timestamp_to_frame_info and _extract_video_frames *)
(* (FrameSpec).                                                            *)
(***************************************************************************)
\* the two-digit number at s[k], s[k+1]
TwoDigits(s, k) == 10 * DigitVal(s[k]) + DigitVal(s[k + 1])

IsMMSSFF(s) == Len(s) = 8 /\ s[3] = ":" /\ s[6] = "."

IsHHMMSSFF(s) == Len(s) = 11 /\ s[3] = ":" /\ s[6] = ":" /\ s[9] = "."

SecondsOf(s) ==
    IF IsMMSSFF(s) THEN TwoDigits(s, 1) * 60 + TwoDigits(s, 4)
    ELSE TwoDigits(s, 1) * 3600 + TwoDigits(s, 4) * 60 + TwoDigits(s, 7)

FFOf(s) == IF IsMMSSFF(s) THEN TwoDigits(s, 7) ELSE TwoDigits(s, 10)

\* C7 as stated: for a timestamp MM:SS.FF or HH:MM:SS.FF and an integer frame
\* rate, exact_frame = total_seconds * fps + FF and the frame lies inside the
\* second the timestamp names.
C7_FrameWithinSecond ==
    (seeks # <<>> /\ video.fps.den = 1
        /\ (IsMMSSFF(timestamps[Len(seeks)]) \/ IsHHMMSSFF(timestamps[Len(seeks)]))) =>
        LET timestamp == timestamps[Len(seeks)]
            fps == video.fps.num
        IN  /\ frame_info.total_seconds = SecondsOf(timestamp)
            /\ frame_info.exact_frame = SecondsOf(timestamp) * fps + FFOf(timestamp)
            /\ SecondsOf(timestamp) * fps <= frame_info.exact_frame
            /\ frame_info.exact_frame < (SecondsOf(timestamp) + 1) * fps

\* C8 as stated: every frame index passed to the seek lies in
\* 0 .. total_frames - 1.
C8_SeekWithinVideo ==
    \A k \in DOMAIN seeks : 0 <= seeks[k] /\ seeks[k] <= video.total_frames - 1

\* _extract_video_frames has returned
FramesReturned == step.at = "frames_done"

\* the positions of the timestamps whose cap.read() succeeded, in order
SuccessfulReads == SelectSeq([k \in DOMAIN reads |-> k], LAMBDA k : reads[k])

\* C11: _extract_video_frames returns [] when the timestamp list is empty or
\* the video cannot be opened; otherwise every timestamp is processed whatever
\* the earlier reads answered, and the returned list holds, in the order of the
\* timestamps, exactly one path for each timestamp whose read succeeded (named
\* after that timestamp, its position and the frame sought) and none for a
\* failed read; the returned paths are pairwise distinct.
C11_OnePathPerSuccessfulRead ==
    FramesReturned =>
        /\ (timestamps = <<>> \/ ~video.opened) =>
               (screenshot_files = <<>> /\ reads = <<>>)
        /\ (timestamps # <<>> /\ video.opened) => Len(reads) = Len(timestamps)
        /\ Len(screenshot_files) = Len(SuccessfulReads)
        /\ \A j \in DOMAIN screenshot_files :
              LET k == SuccessfulReads[j]
              IN  /\ Label(screenshot_files[j]).timestamp = timestamps[k]
                  /\ Label(screenshot_files[j]).frame_num = Str(seeks[k])
                  /\ Split(screenshot_files[j], "_")[2] = Str(k)
        /\ \A j1, j2 \in DOMAIN screenshot_files :
              j1 # j2 => screenshot_files[j1] # screenshot_files[j2]

\* C11 witness: the same timestamp given twice, both reads successful, two
\* paths returned
C11_Witness ==
    /\ FramesReturned
    /\ Len(timestamps) = 2
    /\ timestamps[1] = timestamps[2]
    /\ reads = <<TRUE, TRUE>>
    /\ Len(screenshot_files) = 2

(***************************************************************************)
(* Properties of _create_comparison_image (SheetSpec).                     *)
(***************************************************************************)
Disjoint(a, b) ==
    \/ a.x + img_width <= b.x
    \/ b.x + img_width <= a.x
    \/ a.y + img_height <= b.y
    \/ b.y + img_height <= a.y

\* C9 as stated: at most 4 columns, every pasted image entirely inside the
\* canvas, no two pasted images overlapping.
C9_SheetInsideCanvas ==
    /\ canvas.cols <= MaxCols
    /\ \A a \in pasted :
          /\ a.x >= 0
          /\ a.y >= 0
          /\ a.x + img_width <= canvas.width
          /\ a.y + img_height <= canvas.height
    /\ \A a, b \in pasted : a # b => Disjoint(a, b)

(***************************************************************************)
(* Properties of the screenshot file name (NameSpec).                      *)
(***************************************************************************)
\* the whole of s is one match of time_pattern
IsParserTimestamp(s) == s # <<>> /\ TimeMatchLen(s, 1) = Len(s)

\* C13: for every timestamp that time_pattern matches, every index and every
\* frame number, the label read back from the file name that was written for
\* them carries the original timestamp string and the same frame number.
C13_FileNameRoundTrip ==
    (step.at = "name_done" /\ IsParserTimestamp(timestamps[1])) =>
        /\ drawn_label.timestamp = timestamps[1]
        /\ drawn_label.frame_num = Str(seeks[1])

\* C13 witness: HH:MM:SS.FF with a two-digit index and the frame number -1 has
\* been written and read back
C13_Witness ==
    /\ step.at = "name_done"
    /\ step.i = 9
    /\ timestamps[1] = T010203_29
    /\ IsParserTimestamp(timestamps[1])
    /\ seeks[1] = -1
    /\ drawn_label # NoLabel

=============================================================================
